---- MODULE Spec2Model ----
(***************************************************************************)
(* Model of .github/scripts/add_links_fx_pn.py: the script that inserts    *)
(* backlinks between the current and the preview Firefox privacy notice.   *)
(*                                                                         *)
(* Text is a sequence of tokens.  A token is a fragment of text that the   *)
(* script never looks inside: the line terminator "NL" ("\n"), the on-disk *)
(* terminator "CRLF" ("\r\n"), a blank " ", the anchor text "{: datetime", *)
(* a class attribute in one of its two quoting styles, or other text.      *)
(* str.join is concatenation, str.splitlines(keepends=True) cuts after     *)
(* every "NL", `x in s` is token membership.                               *)
(***************************************************************************)
EXTENDS Integers, Sequences, FiniteSets, TLC

VARIABLES path, dry_run, dirs, files, files0, pc, li, total_checked,
          total_changed, out, trace, exit, hist

vars == <<path, dry_run, dirs, files, files0, pc, li, total_checked,
          total_changed, out, trace, exit, hist>>

-----------------------------------------------------------------------------
(* Program constants *)

FIND_ANCHOR == "{: datetime"

SCAN_FIRST_N_LINES == 50

\* The table of link texts, in insertion order.  Each natural-language
\* sentence of the table is one token, named after its place in the table.
PRIVACY_NOTICE_LINKS ==
    <<
       [locale |-> "cs", preview |-> "cs:link-to-preview", current |-> "cs:link-to-current"],
       [locale |-> "de", preview |-> "de:link-to-preview", current |-> "de:link-to-current"],
       [locale |-> "en", preview |-> "en:link-to-preview", current |-> "en:link-to-current"],
       [locale |-> "es-ES", preview |-> "es-ES:link-to-preview", current |-> "es-ES:link-to-current"],
       [locale |-> "fr", preview |-> "fr:link-to-preview", current |-> "fr:link-to-current"],
       [locale |-> "hu", preview |-> "hu:link-to-preview", current |-> "hu:link-to-current"],
       [locale |-> "id", preview |-> "id:link-to-preview", current |-> "id:link-to-current"],
       [locale |-> "it", preview |-> "it:link-to-preview", current |-> "it:link-to-current"],
       [locale |-> "ja", preview |-> "ja:link-to-preview", current |-> "ja:link-to-current"],
       [locale |-> "nl", preview |-> "nl:link-to-preview", current |-> "nl:link-to-current"],
       [locale |-> "pl", preview |-> "pl:link-to-preview", current |-> "pl:link-to-current"],
       [locale |-> "pt-BR", preview |-> "pt-BR:link-to-preview", current |-> "pt-BR:link-to-current"],
       [locale |-> "ru", preview |-> "ru:link-to-preview", current |-> "ru:link-to-current"],
       [locale |-> "zh-CN", preview |-> "zh-CN:link-to-preview", current |-> "zh-CN:link-to-current"]
    >>

Locales == {PRIVACY_NOTICE_LINKS[i].locale : i \in 1..Len(PRIVACY_NOTICE_LINKS)}

NOTICE == "firefox_privacy_notice.md"

PREVIEW == "firefox_privacy_notice_preview.md"

FileNames == {NOTICE, PREVIEW}

NEXT_CLASS == "link-next-pn"

CURRENT_CLASS == "link-current-pn"

NEXT_HREF == "https://www.mozilla.org/privacy/firefox/next"

CURRENT_HREF == "https://www.mozilla.org/privacy/firefox/"

ClassOf(f) == IF f = NOTICE THEN NEXT_CLASS ELSE CURRENT_CLASS

HrefOf(f) == IF f = NOTICE THEN NEXT_HREF ELSE CURRENT_HREF

\* texts["link-to-preview"] for the notice, texts["link-to-current"] for the preview
TextOf(texts, f) == IF f = NOTICE THEN texts.preview ELSE texts.current

\* f'class="{class_name}"' and f"class='{class_name}'"
ClassAttrDq(c) == IF c = NEXT_CLASS THEN "class=\"link-next-pn\""
                  ELSE "class=\"link-current-pn\""

ClassAttrSq(c) == IF c = NEXT_CLASS THEN "class='link-next-pn'"
                  ELSE "class='link-current-pn'"

\* f' href="{href}"'
HrefAttr(h) == IF h = NEXT_HREF
               THEN " href=\"https://www.mozilla.org/privacy/firefox/next\""
               ELSE " href=\"https://www.mozilla.org/privacy/firefox/\""

Missing == <<"<no such file>">>

-----------------------------------------------------------------------------
(* Text primitives *)

Min(a, b) == IF a < b THEN a ELSE b

\* Path.read_text: text mode with universal newlines turns "\r\n" into "\n".
ReadText(bytes) ==
    [i \in 1..Len(bytes) |-> IF bytes[i] = "CRLF" THEN "NL" ELSE bytes[i]]

\* Path.write_text on POSIX: "\n" is written as it is.
WriteText(s) == s

\* The position where the line that starts at `start` ends: its "\n", or
\* the end of the text.
LineEnd(s, start) ==
    CHOOSE e \in start..Len(s) :
        /\ s[e] = "NL" \/ e = Len(s)
        /\ \A j \in start..(e - 1) : s[j] # "NL"

RECURSIVE SplitFrom(_, _)
SplitFrom(s, start) ==
    IF start > Len(s) THEN <<>>
    ELSE <<SubSeq(s, start, LineEnd(s, start))>>
           \o SplitFrom(s, LineEnd(s, start) + 1)

\* str.splitlines(keepends=True)
Splitlines(s) == SplitFrom(s, 1)

RECURSIVE Join(_)
\* "".join(lines)
Join(lines) == IF lines = <<>> THEN <<>> ELSE Head(lines) \o Join(Tail(lines))

\* x in s
Contains(s, tok) == \E i \in 1..Len(s) : s[i] = tok

Whitespace == {"NL", " "}

\* line.strip() == ""
StripIsEmpty(line) == \A i \in 1..Len(line) : line[i] \in Whitespace

\* s.endswith("\n")
EndsWithNL(s) == Len(s) > 0 /\ s[Len(s)] = "NL"

-----------------------------------------------------------------------------
(* The functions of the script.  Line indices are Python's (from 0);       *)
(* lines[k] of the script is lines[k + 1] here.                            *)

\* A scan that knows the double-quoted attribute only.
file_has_class_in_first_lines_DqOnly(lines, class_name, n) ==
    LET haystack == Join(SubSeq(lines, 1, Min(n, Len(lines))))
    IN  Contains(haystack, ClassAttrDq(class_name))

file_has_class_in_first_lines(lines, class_name, n) ==
    LET haystack == Join(SubSeq(lines, 1, Min(n, Len(lines))))
    IN  Contains(haystack, ClassAttrDq(class_name))
        \/ Contains(haystack, ClassAttrSq(class_name))

\* A search that falls back to the last line when no line has the anchor.
find_anchor_index_LastLine(lines, anchor) ==
    IF \E i \in 1..Len(lines) : Contains(lines[i], anchor)
    THEN (CHOOSE i \in 1..Len(lines) :
             /\ Contains(lines[i], anchor)
             /\ \A j \in 1..(i - 1) : ~Contains(lines[j], anchor)) - 1
    ELSE Len(lines) - 1

\* None is -1
find_anchor_index(lines, anchor) ==
    IF \E i \in 1..Len(lines) : Contains(lines[i], anchor)
    THEN (CHOOSE i \in 1..Len(lines) :
             /\ Contains(lines[i], anchor)
             /\ \A j \in 1..(i - 1) : ~Contains(lines[j], anchor)) - 1
    ELSE -1

build_link_line(class_name, href, text) ==
    <<"<a ", ClassAttrDq(class_name), HrefAttr(href), ">", text, "</a>", "NL">>

RECURSIVE DeleteBlanksAt(_, _)
\* while insert_at < len(new_lines) and new_lines[insert_at].strip() == "":
\*     del new_lines[insert_at]
DeleteBlanksAt(new_lines, insert_at) ==
    IF insert_at < Len(new_lines) /\ StripIsEmpty(new_lines[insert_at + 1])
    THEN DeleteBlanksAt(SubSeq(new_lines, 1, insert_at)
                          \o SubSeq(new_lines, insert_at + 2, Len(new_lines)),
                        insert_at)
    ELSE new_lines

insert_block_after_index(lines, idx, link_line) ==
    LET insert_at == idx + 1
        new_lines == DeleteBlanksAt(lines, insert_at)
        ll        == IF EndsWithNL(link_line) THEN link_line
                     ELSE Append(link_line, "NL")
        block     == <<(<<"NL">>), ll, (<<"NL">>)>>
    IN  SubSeq(new_lines, 1, insert_at) \o block
          \o SubSeq(new_lines, insert_at + 1, Len(new_lines))

\* A write that ignores dry_run.
WriteUnlessDry_Always(file, new_lines, dry) == WriteText(Join(new_lines))

\* if not dry_run: file_path.write_text("".join(new_lines))
\* The bytes of the file afterwards.
WriteUnlessDry(file, new_lines, dry) ==
    IF ~dry THEN WriteText(Join(new_lines)) ELSE file

\* The result of ensure_link_in_file on a file whose bytes are `file`
\* (Missing when the path does not exist): the returned changed flag, the
\* status of the returned message, the bytes of the file afterwards and the
\* file system calls made.
ensure_link_in_file(file, class_name, href, link_text, dry) ==
    IF file = Missing
    THEN [changed |-> FALSE, status |-> "SKIP (missing)", file |-> file,
          ops |-> <<"exists">>]
    ELSE
    LET raw   == ReadText(file)
        lines == Splitlines(raw)
    IN  IF file_has_class_in_first_lines(lines, class_name, SCAN_FIRST_N_LINES)
        THEN [changed |-> FALSE, status |-> "OK (already present)",
              file |-> file, ops |-> <<"exists", "read_text">>]
        ELSE
        LET anchor_idx == find_anchor_index(lines, FIND_ANCHOR)
        IN  IF anchor_idx = -1
            THEN [changed |-> FALSE,
                  status |-> "WARN (anchor not found, no change)",
                  file |-> file, ops |-> <<"exists", "read_text">>]
            ELSE
            LET link_line == build_link_line(class_name, href, link_text)
                new_lines == insert_block_after_index(lines, anchor_idx,
                                                      link_line)
            IN  [changed |-> TRUE,
                 status |-> IF dry THEN "DRY-RUN would update" ELSE "UPDATED",
                 file |-> WriteUnlessDry(file, new_lines, dry),
                 ops |-> IF ~dry THEN <<"exists", "read_text", "write_text">>
                         ELSE <<"exists", "read_text">>]

\* The three things the root argument can name.
Paths == {"repo", "nowhere", "regular-file"}

RootExists(p) == p \in {"repo", "regular-file"}

RootIsDir(p) == p = "repo"

\* resolve_locale_dir(root, locale) is not None
resolve_locale_dir(p, ds, locale) == RootIsDir(p) /\ locale \in ds

-----------------------------------------------------------------------------
(* Bounds of the model *)

\* Number of invocations of the script in one behaviour.
MaxRuns == 2

\* Number of lines after the padding in a generated file.
MaxBody == 3

-----------------------------------------------------------------------------
(* The file trees the script is run on *)

Keys == Locales \X FileNames

TextLine == <<"text">>

\* p lines of text
RECURSIVE Pad(_)
Pad(p) == IF p = 0 THEN <<>> ELSE <<"text", "NL">> \o Pad(p - 1)

\* The contents of a line of a generated file, without its terminator.
LineKinds(c) == {TextLine, <<>>, <<FIND_ANCHOR>>, <<ClassAttrSq(c)>>}

Bodies(c) == UNION {[1..n -> LineKinds(c)] : n \in 0..MaxBody}

RECURSIVE Terminated(_)
Terminated(body) ==
    IF body = <<>> THEN <<>> ELSE Head(body) \o <<"NL">> \o Terminated(Tail(body))

\* Paddings that put a line of the body just inside or just outside the
\* first SCAN_FIRST_N_LINES lines.
PadChoices == {0, SCAN_FIRST_N_LINES - 3, SCAN_FIRST_N_LINES - 2}

\* A generated file: padding, then the body; the last line of the file
\* has a terminator or not.
Generated(p, body, final_nl) ==
    LET all == Pad(p) \o Terminated(body)
    IN  IF final_nl \/ all = <<>> THEN all ELSE SubSeq(all, 1, Len(all) - 1)

GeneratedFiles(c) ==
    {Generated(p, b, t) : p \in PadChoices, b \in Bodies(c), t \in BOOLEAN}

OtherClass(c) == IF c = NEXT_CLASS THEN CURRENT_CLASS ELSE NEXT_CLASS

\* A few whole files: linked; not linked with the anchor followed by a
\* whitespace-only line; without anchor and with the marker of the other
\* document; with "\r\n" terminators.
SampleFiles(c) ==
    { <<"text", "NL", FIND_ANCHOR, "NL", "<a ", ClassAttrDq(c), ">", "NL">>,
      <<"text", "NL", FIND_ANCHOR, "text", "NL", " ", "NL", "text", "NL">>,
      <<"text", "NL", ClassAttrSq(OtherClass(c)), "NL">>,
      <<FIND_ANCHOR, "CRLF", "text", "CRLF">>,
      Missing }

\* Locale directories that may exist under the root.
TreeLocales == {"de", "en"}

TreeOf(ds, c) == [k \in Keys |-> IF k[1] \in ds THEN c[k] ELSE Missing]

SampleTrees ==
    UNION { { [ds |-> ds, fs |-> TreeOf(ds, c)] :
                c \in { g \in [ds \X FileNames -> SampleFiles(NEXT_CLASS)
                                                    \cup SampleFiles(CURRENT_CLASS)] :
                          \A k \in ds \X FileNames :
                              g[k] \in SampleFiles(ClassOf(k[2])) } }
            : ds \in SUBSET TreeLocales }

\* One locale directory holding one generated notice.
GeneratedTrees ==
    { [ds |-> {"en"},
       fs |-> [k \in Keys |-> IF k = <<"en", NOTICE>> THEN g ELSE Missing]] :
      g \in GeneratedFiles(NEXT_CLASS) }

Trees == SampleTrees \cup GeneratedTrees

-----------------------------------------------------------------------------
(* The state machine: main(), one action per step *)

\* A line of standard output.
Line(kind, locale, file, status, n, m) ==
    [kind |-> kind, locale |-> locale, file |-> file, status |-> status,
     checked |-> n, changed |-> m]

\* A call to the file system.
Op(op, locale, file) == [op |-> op, locale |-> locale, file |-> file]

Ops(names, locale, file) == [i \in 1..Len(names) |-> Op(names[i], locale, file)]

\* What is kept of a finished run.
RunRecord(code, o, t, n, m, after) ==
    [dry |-> dry_run, exit |-> code, out |-> o, trace |-> t, checked |-> n,
     changed |-> m, before |-> files0, after |-> after]

Init ==
    /\ path \in Paths
    /\ \E t \in Trees : dirs = t.ds /\ files = t.fs
    /\ files0 = files
    /\ dry_run = FALSE
    /\ pc = "start"
    /\ li = 1
    /\ total_checked = 0
    /\ total_changed = 0
    /\ out = <<>>
    /\ trace = <<>>
    /\ exit = -1
    /\ hist = <<>>

\* The script is started: args = parser.parse_args()
Invoke(d) ==
    /\ pc \in {"start", "done"}
    /\ Len(hist) < MaxRuns
    /\ dry_run' = d
    /\ files0' = files
    /\ pc' = "check_root"
    /\ li' = 1
    /\ total_checked' = 0
    /\ total_changed' = 0
    /\ out' = <<>>
    /\ trace' = <<>>
    /\ exit' = -1
    /\ UNCHANGED <<path, dirs, files, hist>>

\* An invalid root that returns 1.
RootInvalid_ReturnsOne ==
    /\ pc = "check_root"
    /\ ~RootExists(path) \/ ~RootIsDir(path)
    /\ out' = Append(out, Line("ERROR: Not a directory", "", "", "", 0, 0))
    /\ trace' = Append(trace, Op("exists", "", ""))
    /\ exit' = 1
    /\ pc' = "done"
    /\ hist' = Append(hist, RunRecord(1, out', trace', total_checked,
                                      total_changed, files))
    /\ UNCHANGED <<path, dry_run, dirs, files, files0, li, total_checked,
                   total_changed>>

\* if not root.exists() or not root.is_dir(): print error, return 2
RootInvalid ==
    /\ pc = "check_root"
    /\ ~RootExists(path) \/ ~RootIsDir(path)
    /\ out' = Append(out, Line("ERROR: Not a directory", "", "", "", 0, 0))
    /\ trace' = trace \o (IF RootExists(path)
                          THEN <<Op("exists", "", ""), Op("is_dir", "", "")>>
                          ELSE <<Op("exists", "", "")>>)
    /\ exit' = 2
    /\ pc' = "done"
    /\ hist' = Append(hist, RunRecord(2, out', trace', total_checked,
                                      total_changed, files))
    /\ UNCHANGED <<path, dry_run, dirs, files, files0, li, total_checked,
                   total_changed>>

\* The root is a directory: total_changed = 0, total_checked = 0, enter the loop
RootValid ==
    /\ pc = "check_root"
    /\ ~(~RootExists(path) \/ ~RootIsDir(path))
    /\ trace' = trace \o <<Op("exists", "", ""), Op("is_dir", "", "")>>
    /\ total_changed' = 0
    /\ total_checked' = 0
    /\ li' = 1
    /\ pc' = "loop"
    /\ UNCHANGED <<path, dry_run, dirs, files, files0, out, exit, hist>>

\* A missing locale directory that ends the loop (break for continue).
LocaleSkip_Break ==
    /\ pc = "loop"
    /\ li <= Len(PRIVACY_NOTICE_LINKS)
    /\ LET locale == PRIVACY_NOTICE_LINKS[li].locale
       IN  /\ ~resolve_locale_dir(path, dirs, locale)
           /\ trace' = Append(trace, Op("is_dir", locale, ""))
           /\ out' = Append(out, Line("SKIP (locale folder not available)",
                                      locale, "", "", 0, 0))
    /\ li' = Len(PRIVACY_NOTICE_LINKS) + 1
    /\ UNCHANGED <<path, dry_run, dirs, files, files0, pc, total_checked,
                   total_changed, exit, hist>>

\* loc_dir is None: print SKIP, continue
LocaleSkip ==
    /\ pc = "loop"
    /\ li <= Len(PRIVACY_NOTICE_LINKS)
    /\ LET locale == PRIVACY_NOTICE_LINKS[li].locale
       IN  /\ ~resolve_locale_dir(path, dirs, locale)
           /\ trace' = Append(trace, Op("is_dir", locale, ""))
           /\ out' = Append(out, Line("SKIP (locale folder not available)",
                                      locale, "", "", 0, 0))
    /\ li' = li + 1
    /\ UNCHANGED <<path, dry_run, dirs, files, files0, pc, total_checked,
                   total_changed, exit, hist>>

\* A count of the files that exist instead of the targets checked.
Process_CountsExisting(locale, texts, f) ==
    LET r == ensure_link_in_file(files[<<locale, f>>], ClassOf(f), HrefOf(f),
                                 TextOf(texts, f), dry_run)
    IN  /\ files' = [files EXCEPT ![<<locale, f>>] = r.file]
        /\ trace' = trace \o Ops(r.ops, locale, f)
        /\ total_checked' = IF files[<<locale, f>>] = Missing
                            THEN total_checked ELSE total_checked + 1
        /\ total_changed' = IF r.changed THEN total_changed + 1
                            ELSE total_changed
        /\ out' = Append(out, Line("file", locale, f, r.status, 0, 0))

\* One call of ensure_link_in_file from main, with the counting and the
\* report line that follow it.
Process(locale, texts, f) ==
    LET r == ensure_link_in_file(files[<<locale, f>>], ClassOf(f), HrefOf(f),
                                 TextOf(texts, f), dry_run)
    IN  /\ files' = [files EXCEPT ![<<locale, f>>] = r.file]
        /\ trace' = trace \o Ops(r.ops, locale, f)
        /\ total_checked' = total_checked + 1
        /\ total_changed' = IF r.changed THEN total_changed + 1
                            ELSE total_changed
        /\ out' = Append(out, Line("file", locale, f, r.status, 0, 0))

\* A first step that takes the preview before the notice.
ProcessNotice_PreviewFirst ==
    /\ pc = "loop"
    /\ li <= Len(PRIVACY_NOTICE_LINKS)
    /\ LET locale == PRIVACY_NOTICE_LINKS[li].locale
       IN  /\ resolve_locale_dir(path, dirs, locale)
           /\ Process(locale, PRIVACY_NOTICE_LINKS[li], PREVIEW)
    /\ pc' = "preview"
    /\ UNCHANGED <<path, dry_run, dirs, files0, li, exit, hist>>

\* loc_dir is a directory: 1) firefox_privacy_notice.md needs link-next-pn
ProcessNotice ==
    /\ pc = "loop"
    /\ li <= Len(PRIVACY_NOTICE_LINKS)
    /\ LET locale == PRIVACY_NOTICE_LINKS[li].locale
       IN  /\ resolve_locale_dir(path, dirs, locale)
           /\ Process(locale, PRIVACY_NOTICE_LINKS[li], NOTICE)
    /\ pc' = "preview"
    /\ UNCHANGED <<path, dry_run, dirs, files0, li, exit, hist>>

\* 2) firefox_privacy_notice_preview.md needs link-current-pn
ProcessPreview ==
    /\ pc = "preview"
    /\ Process(PRIVACY_NOTICE_LINKS[li].locale, PRIVACY_NOTICE_LINKS[li],
               PREVIEW)
    /\ li' = li + 1
    /\ pc' = "loop"
    /\ UNCHANGED <<path, dry_run, dirs, files0, exit, hist>>

\* After the loop: print the summary, the dry-run notice, return 0
Finish ==
    /\ pc = "loop"
    /\ li > Len(PRIVACY_NOTICE_LINKS)
    /\ out' = out \o <<Line("Done.", "", "", "", total_checked, total_changed)>>
                  \o (IF dry_run
                      THEN <<Line("Dry-run mode: no files were modified.",
                                  "", "", "", 0, 0)>>
                      ELSE <<>>)
    /\ exit' = 0
    /\ pc' = "done"
    /\ hist' = Append(hist, RunRecord(0, out', trace, total_checked,
                                      total_changed, files))
    /\ UNCHANGED <<path, dry_run, dirs, files, files0, li, total_checked,
                   total_changed, trace>>

Next ==
    \/ \E d \in BOOLEAN : Invoke(d)
    \/ RootInvalid
    \/ RootValid
    \/ LocaleSkip
    \/ ProcessNotice
    \/ ProcessPreview
    \/ Finish

Spec == Init /\ [][Next]_vars

-----------------------------------------------------------------------------
(* Vocabulary of the properties *)

\* The lines of text the script sees in a file.
LinesOf(bytes) == Splitlines(ReadText(bytes))

\* A line holds the marker of class c, in either quoting style.
IsMarkerLine(line, c) ==
    \E j \in 1..Len(line) : line[j] \in {ClassAttrDq(c), ClassAttrSq(c)}

\* "Linked": a marker in one of the first 50 lines.
Linked(bytes, c) ==
    LET L == LinesOf(bytes)
    IN  \E i \in 1..Len(L) : i <= SCAN_FIRST_N_LINES /\ IsMarkerLine(L[i], c)

IsAnchorLine(line) == \E j \in 1..Len(line) : line[j] = FIND_ANCHOR

HasAnchor(bytes) ==
    LET L == LinesOf(bytes) IN \E i \in 1..Len(L) : IsAnchorLine(L[i])

UpdateStatuses == {"UPDATED", "DRY-RUN would update"}

\* The locale directories a run can see.
PresentLocales == IF path = "repo" THEN dirs ELSE {}

PresentKeys == PresentLocales \X FileNames

\* Positions in an output of the report lines of one (locale, file) pair.
ReportsOf(o, key) ==
    {i \in 1..Len(o) :
        o[i].kind = "file" /\ o[i].locale = key[1] /\ o[i].file = key[2]}

\* The status reported for a pair; "" when the pair has no report line.
StatusOf(o, key) ==
    IF ReportsOf(o, key) = {} THEN ""
    ELSE o[CHOOSE i \in ReportsOf(o, key) : TRUE].status

FileReports(o) == SelectSeq(o, LAMBDA x : x.kind = "file")

WritesOf(t, key) ==
    {i \in 1..Len(t) :
        t[i].op = "write_text" /\ t[i].locale = key[1] /\ t[i].file = key[2]}

\* A run has just ended; Last is its record, Earlier the runs before it.
Done == pc = "done"

Last == hist[Len(hist)]

Earlier == 1..(Len(hist) - 1)

-----------------------------------------------------------------------------
(* C1 *)

\* C1: two real runs in succession: the second leaves every file as the
\* first left it and reports no change for any file.
C1_Idempotent ==
    (Done /\ Len(hist) > 1 /\ ~hist[Len(hist) - 1].dry /\ ~Last.dry) =>
        /\ Last.after = hist[Len(hist) - 1].after
        /\ Last.changed = 0
        /\ \A i \in 1..Len(Last.out) :
               Last.out[i].kind = "file" =>
                   Last.out[i].status \notin UpdateStatuses

-----------------------------------------------------------------------------
(* C2 *)

DryAsReal(line) ==
    IF line.status = "DRY-RUN would update"
    THEN [line EXCEPT !.status = "UPDATED"] ELSE line

\* The report and the counts of dry run d are those of real run r.
SameReport(d, r) ==
    /\ [i \in 1..Len(FileReports(d.out)) |-> DryAsReal(FileReports(d.out)[i])]
         = FileReports(r.out)
    /\ d.changed = r.changed
    /\ d.checked = r.checked
    /\ d.exit = r.exit

\* C2: a dry run leaves every file as it was, however many dry runs came
\* before it, and the per-file report and the Changed count of a dry run
\* are those of a real run on the same tree (would-update for updated).
C2_DryRunNoOp ==
    /\ (pc # "start" /\ dry_run) => files = files0
    /\ Done =>
          /\ Last.dry => Last.after = Last.before
          /\ \A j \in Earlier :
                /\ (hist[j].dry /\ ~Last.dry /\ hist[j].before = Last.before)
                      => SameReport(hist[j], Last)
                /\ (~hist[j].dry /\ Last.dry /\ hist[j].before = Last.before)
                      => SameReport(Last, hist[j])

\* A dry run that would update a file and skipped a missing one, then a
\* real run on the same tree that updated.
C2_Witness ==
    /\ Done
    /\ Len(hist) = 2
    /\ hist[1].dry /\ ~hist[2].dry
    /\ hist[1].changed > 0
    /\ \E i \in 1..Len(hist[1].out) : hist[1].out[i].status = "SKIP (missing)"
    /\ \E i \in 1..Len(hist[2].out) : hist[2].out[i].status = "UPDATED"
    /\ hist[2].after # hist[2].before

-----------------------------------------------------------------------------
(* C3 *)

\* A whitespace-only line.
IsBlankLine(line) == \A j \in 1..Len(line) : line[j] \in {" ", "NL"}

FirstAnchor(L) ==
    CHOOSE i \in 1..Len(L) :
        IsAnchorLine(L[i]) /\ \A j \in 1..(i - 1) : ~IsAnchorLine(L[j])

\* The number of whitespace-only lines that follow line i.
BlankRun(L, i) ==
    CHOOSE n \in 0..(Len(L) - i) :
        /\ \A j \in (i + 1)..(i + n) : IsBlankLine(L[j])
        /\ (i + n = Len(L) \/ ~IsBlankLine(L[i + n + 1]))

TextsOf(l) ==
    PRIVACY_NOTICE_LINKS[CHOOSE i \in 1..Len(PRIVACY_NOTICE_LINKS) :
                             PRIVACY_NOTICE_LINKS[i].locale = l]

\* <a class="CLASS" href="HREF">TEXT</a> and a line terminator
LinkLineOf(key) ==
    IF key[2] = NOTICE
    THEN <<"<a ", "class=\"link-next-pn\"",
           " href=\"https://www.mozilla.org/privacy/firefox/next\"", ">",
           TextsOf(key[1]).preview, "</a>", "NL">>
    ELSE <<"<a ", "class=\"link-current-pn\"",
           " href=\"https://www.mozilla.org/privacy/firefox/\"", ">",
           TextsOf(key[1]).current, "</a>", "NL">>

\* The lines up to the anchor, a blank line, the link line, a blank line,
\* and the lines after the whitespace-only lines that followed the anchor.
InsertionOf(L, key) ==
    LET i == FirstAnchor(L)
        n == BlankRun(L, i)
    IN  SubSeq(L, 1, i) \o << <<"NL">>, LinkLineOf(key), <<"NL">> >>
          \o SubSeq(L, i + n + 1, Len(L))

\* C3: the lines of an updated file are the lines up to and including the
\* first anchor line unchanged, one blank line, the link line, one blank
\* line, and then the lines that followed the whitespace-only lines after
\* the anchor, unchanged and in order.
C3_InsertionResult ==
    Done => \A key \in PresentKeys :
        StatusOf(Last.out, key) = "UPDATED" =>
            LinesOf(Last.after[key]) = InsertionOf(LinesOf(Last.before[key]), key)

\* The same, for the files whose anchor line ends with a line terminator.
C3_TerminatedAnchor ==
    Done => \A key \in PresentKeys :
        LET L == LinesOf(Last.before[key])
        IN  (StatusOf(Last.out, key) = "UPDATED"
               /\ EndsWithNL(L[FirstAnchor(L)])) =>
                LinesOf(Last.after[key]) = InsertionOf(L, key)

-----------------------------------------------------------------------------
(* C4 *)

\* C4: after a real run every existing target file of a present locale
\* that has an anchor line has the marker of its class in its first 50 lines.
C4_LinkedAfterRealRun ==
    (Done /\ ~Last.dry /\ Last.exit = 0) =>
        \A key \in PresentKeys :
            (Last.after[key] # Missing /\ HasAnchor(Last.after[key])) =>
                Linked(Last.after[key], ClassOf(key[2]))

-----------------------------------------------------------------------------
(* C5 *)

\* The pairs the next step of main processes: one or none.
PairsAtStep ==
    IF pc = "loop" /\ li <= Len(PRIVACY_NOTICE_LINKS)
         /\ PRIVACY_NOTICE_LINKS[li].locale \in PresentLocales
    THEN {<<PRIVACY_NOTICE_LINKS[li].locale, NOTICE>>}
    ELSE IF pc = "preview"
    THEN {<<PRIVACY_NOTICE_LINKS[li].locale, PREVIEW>>}
    ELSE {}

NoAnchorNotLinked(bytes, c) ==
    bytes # Missing /\ ~HasAnchor(bytes) /\ ~Linked(bytes, c)

\* C5: processing an existing file that has no anchor line and is not
\* linked writes nothing, reports WARN (anchor not found), does not count
\* the file as changed, and the run goes on to the next pair.
C5_MissingAnchorStep ==
    \A key \in PairsAtStep :
        NoAnchorNotLinked(files[key], ClassOf(key[2])) =>
            /\ files' = files
            /\ total_changed' = total_changed
            /\ total_checked' = total_checked + 1
            /\ out' = Append(out, Line("file", key[1], key[2],
                                       "WARN (anchor not found, no change)",
                                       0, 0))
            /\ WritesOf(trace', key) = {}
            /\ pc' \in {"preview", "loop"}
            /\ exit' = -1

C5_MissingAnchor == [][C5_MissingAnchorStep]_vars

\* A finished run that warned about a file, left it as it was, and updated
\* a later one.
C5_Witness ==
    /\ Done
    /\ \E i, j \in 1..Len(out) :
          /\ i < j
          /\ out[i].status = "WARN (anchor not found, no change)"
          /\ out[j].status = "UPDATED"
          /\ files[<<out[i].locale, out[i].file>>]
               = files0[<<out[i].locale, out[i].file>>]

-----------------------------------------------------------------------------
(* C6 *)

\* C6: an existing target file is reported OK (already present) exactly
\* when one of its first 50 lines holds the marker of its class in double
\* or in single quotes, whether or not it has an anchor line; and a file
\* reported OK is not written.
C6_AlreadyLinked ==
    Done => \A key \in PresentKeys :
        (Last.exit = 0 /\ Last.before[key] # Missing) =>
            /\ (StatusOf(Last.out, key) = "OK (already present)")
                 <=> Linked(Last.before[key], ClassOf(key[2]))
            /\ (StatusOf(Last.out, key) = "OK (already present)")
                 => /\ Last.after[key] = Last.before[key]
                    /\ WritesOf(Last.trace, key) = {}

\* A file without anchor whose only marker is single-quoted and on line 50
\* was reported OK.
C6_Witness ==
    /\ Done
    /\ \E key \in PresentKeys :
        LET L == LinesOf(files0[key])
        IN  /\ files0[key] # Missing
            /\ StatusOf(out, key) = "OK (already present)"
            /\ ~HasAnchor(files0[key])
            /\ Len(L) >= SCAN_FIRST_N_LINES
            /\ \A i \in 1..Len(L) :
                   IsMarkerLine(L[i], ClassOf(key[2])) <=> i = SCAN_FIRST_N_LINES
            /\ Contains(L[SCAN_FIRST_N_LINES], ClassAttrSq(ClassOf(key[2])))

\* A file whose only marker is on line 51 was not reported OK.
C6_WitnessLine51 ==
    /\ Done
    /\ \E key \in PresentKeys :
        LET L == LinesOf(files0[key])
        IN  /\ files0[key] # Missing
            /\ StatusOf(out, key) \notin {"", "OK (already present)"}
            /\ Len(L) > SCAN_FIRST_N_LINES
            /\ IsMarkerLine(L[SCAN_FIRST_N_LINES + 1], ClassOf(key[2]))

-----------------------------------------------------------------------------
(* C7 *)

LocaleSkipsOf(o, l) ==
    {n \in 1..Len(o) :
        o[n].kind = "SKIP (locale folder not available)" /\ o[n].locale = l}

\* C7: in a finished run with a valid root, a locale without directory
\* gets one SKIP line and none of its files comes into being; every pair
\* of a locale with a directory is reported once, with the status and the
\* resulting file that processing that file alone gives, whatever was
\* skipped before it; a missing file stays missing.
C7_SkipsDoNotTaint ==
    (Done /\ Last.exit = 0) =>
        \A i \in 1..Len(PRIVACY_NOTICE_LINKS) :
            LET l == PRIVACY_NOTICE_LINKS[i].locale
            IN  IF l \notin PresentLocales
                THEN /\ Cardinality(LocaleSkipsOf(Last.out, l)) = 1
                     /\ \A f \in FileNames :
                           /\ Last.after[<<l, f>>] = Missing
                           /\ ReportsOf(Last.out, <<l, f>>) = {}
                ELSE \A f \in FileNames :
                       LET alone == ensure_link_in_file(
                                        Last.before[<<l, f>>], ClassOf(f),
                                        HrefOf(f),
                                        TextOf(PRIVACY_NOTICE_LINKS[i], f),
                                        Last.dry)
                       IN  /\ Cardinality(ReportsOf(Last.out, <<l, f>>)) = 1
                           /\ StatusOf(Last.out, <<l, f>>) = alone.status
                           /\ Last.after[<<l, f>>] = alone.file
                           /\ (Last.before[<<l, f>>] = Missing =>
                                 /\ StatusOf(Last.out, <<l, f>>)
                                      = "SKIP (missing)"
                                 /\ Last.after[<<l, f>>] = Missing)

\* A run skipped a locale, then met a locale whose notice is missing and
\* updated its preview.
C7_Witness ==
    /\ Done
    /\ exit = 0
    /\ "cs" \notin PresentLocales
    /\ \E l \in PresentLocales :
          /\ files0[<<l, NOTICE>>] = Missing
          /\ StatusOf(out, <<l, NOTICE>>) = "SKIP (missing)"
          /\ StatusOf(out, <<l, PREVIEW>>) = "UPDATED"

-----------------------------------------------------------------------------
(* C8 *)

RootOps == {Op("exists", "", ""), Op("is_dir", "", "")}

\* C8: a run ends with exit code 2 exactly when the root does not exist or
\* is not a directory, and then it looked at no locale, read and wrote no
\* file and printed only the error; every other run ends with exit code 0.
C8_ExitStatus ==
    Done =>
        /\ exit \in {0, 2}
        /\ Last.exit = exit
        /\ exit = 2 <=> path \in {"nowhere", "regular-file"}
        /\ exit = 2 =>
              /\ \A n \in 1..Len(trace) : trace[n] \in RootOps
              /\ files = files0
              /\ Len(out) = 1
              /\ out[1].kind = "ERROR: Not a directory"
              /\ total_checked = 0

\* A run on a root that is a regular file, with locale directories in the
\* tree, ended with 2.
C8_Witness ==
    path = "regular-file" /\ Done /\ exit = 2 /\ dirs # {}

\* A run with a skipped locale, a skipped file, a warning and an update
\* ended with 0.
C8_WitnessZero ==
    /\ path = "repo" /\ Done /\ exit = 0
    /\ \E n \in 1..Len(out) : out[n].status = "SKIP (missing)"
    /\ \E n \in 1..Len(out) : out[n].status = "WARN (anchor not found, no change)"
    /\ \E n \in 1..Len(out) : out[n].status = "UPDATED"

-----------------------------------------------------------------------------
(* C9 *)

\* The pairs in the order of the table, notice before preview, for the
\* locales whose directory exists.
RECURSIVE ExpectedOrder(_)
ExpectedOrder(i) ==
    IF i > Len(PRIVACY_NOTICE_LINKS) THEN <<>>
    ELSE (IF PRIVACY_NOTICE_LINKS[i].locale \in PresentLocales
          THEN << <<PRIVACY_NOTICE_LINKS[i].locale, NOTICE>>,
                  <<PRIVACY_NOTICE_LINKS[i].locale, PREVIEW>> >>
          ELSE <<>>) \o ExpectedOrder(i + 1)

\* The pairs of the report lines of an output, in order.
PairsOf(o) ==
    LET r == FileReports(o) IN [i \in 1..Len(r) |-> <<r[i].locale, r[i].file>>]

\* The pairs of the file system calls of a trace, in order.
TracePairs(t) ==
    LET r == SelectSeq(t, LAMBDA x : x.file # "")
    IN  [i \in 1..Len(r) |-> <<r[i].locale, r[i].file>>]

IsPrefix(a, b) == Len(a) <= Len(b) /\ a = SubSeq(b, 1, Len(a))

Outcomes == {"SKIP (missing)", "OK (already present)",
             "WARN (anchor not found, no change)", "UPDATED",
             "DRY-RUN would update"}

\* C9: at every point of a run the pairs reported so far are the first
\* pairs of the table order (locales in table order, notice before
\* preview), each once; each has one of the terminal outcomes; the file
\* system calls follow the same order; a file is written at most once, and
\* only when the run is real and the pair's outcome is UPDATED; a finished
\* run with a valid root has reported every pair.
C9_VisitOrder ==
    LET order == ExpectedOrder(1)
        pairs == PairsOf(out)
        calls == TracePairs(trace)
    IN  /\ IsPrefix(pairs, order)
        /\ \A i \in 1..Len(out) : out[i].kind = "file" => out[i].status \in Outcomes
        /\ \A a, b \in 1..Len(calls) :
               a < b => \E m, n \in 1..Len(order) :
                           m <= n /\ order[m] = calls[a] /\ order[n] = calls[b]
        /\ \A key \in Keys :
               /\ Cardinality(WritesOf(trace, key)) <= 1
               /\ WritesOf(trace, key) # {} <=>
                     (~dry_run /\ StatusOf(out, key) = "UPDATED")
        /\ (Done /\ exit = 0) => pairs = order

\* A real run over two locale directories ended with all four outcomes.
C9_Witness ==
    /\ Done /\ exit = 0 /\ ~dry_run
    /\ Cardinality(PresentLocales) = 2
    /\ {out[i].status : i \in {n \in 1..Len(out) : out[n].kind = "file"}}
         = Outcomes \ {"DRY-RUN would update"}
    /\ \E key \in Keys : WritesOf(trace, key) # {}

-----------------------------------------------------------------------------
(* C10 *)

UpdateReports(o) == {i \in 1..Len(o) : o[i].kind = "file" /\ o[i].status \in UpdateStatuses}

\* C10: Changed <= Checked at every point; Checked is the number of report
\* lines and Changed the number of lines reporting an update; a finished
\* run has one report line for each pair of each present locale and none
\* for the others, so Checked is twice the number of present locale
\* directories; the summary line shows both counters; in a real run
\* Changed is the number of files whose content was rewritten.
C10_ReportAndCounters ==
    /\ total_changed <= total_checked
    /\ pc \notin {"start", "check_root"} =>
          /\ total_checked = Len(FileReports(out))
          /\ total_changed = Cardinality(UpdateReports(out))
    /\ Done =>
          /\ \A key \in Keys :
                Cardinality(ReportsOf(out, key))
                  = IF key[1] \in PresentLocales THEN 1 ELSE 0
          /\ total_checked = 2 * Cardinality(PresentLocales)
          /\ exit = 0 =>
                \E i \in 1..Len(out) :
                    /\ out[i].kind = "Done."
                    /\ out[i].checked = total_checked
                    /\ out[i].changed = total_changed
          /\ ~dry_run =>
                /\ total_changed
                     = Cardinality({key \in Keys : files[key] # files0[key]})
                /\ total_changed
                     = Cardinality({i \in 1..Len(trace) :
                                       trace[i].op = "write_text"})
          /\ Last.checked = total_checked
          /\ Last.changed = total_changed

\* A real run over two locale directories and a skipped locale changed
\* some of its four files and not all.
C10_Witness ==
    /\ Done /\ exit = 0 /\ ~dry_run
    /\ Cardinality(PresentLocales) = 2
    /\ total_checked = 4
    /\ total_changed = 2
    /\ \E i \in 1..Len(out) : out[i].status = "SKIP (missing)"

====
